---- MODULE Spec2Model ----
(***************************************************************************)
(* Model of the generic trie of benkalmus/trie-go (package trie).          *)
(*                                                                         *)
(* A Go string is a sequence of bytes; the trie stores one rune per edge.  *)
(* Insert and Delete convert the key with []rune(key), Search walks the    *)
(* key with `for i, char := range key` (i is a BYTE offset) and GetAll     *)
(* rebuilds keys with string(keys).  The conversions are modelled by the   *)
(* UTF-8 encoding and decoding they perform.  The keys handed to the      *)
(* operations are well-formed UTF-8 strings.                               *)
(*                                                                         *)
(* A *Node[T] is modelled by the record of its fields; Children is the     *)
(* sequence of the child records.  The node graph is a tree that only the  *)
(* trie owns, so the in-place updates of insert and deleteNode are the     *)
(* same as returning the updated record to the caller.                     *)
(***************************************************************************)
EXTENDS Integers, Sequences, FiniteSets, TLC

\* ------------------------------------------------------------------ bounds
\* longest key handed to an operation, in runes
MaxLen == 2
\* largest number of non-root nodes an Insert may leave in the tree
MaxNodes == 3

\* the runes keys are made of: 'a' (1 byte) and U+00E9 (2 bytes: 195, 169)
Alphabet == {97, 233}
\* the non-zero values of T handed to Insert
Values == {1, 2}

\* ------------------------------------------------------- errors and zero
Nil == "nil"
ErrAlreadyExists == "val already exists in trie"
ErrNotFound == "key not found in trie"
\* *new(T), the zero value of T
Zero == 0

\* ------------------------------------------------------------- strings
\* utf8.EncodeRune: the bytes of one rune
EncodeRune(r) ==
    IF r < 128 THEN <<r>>
    ELSE IF r < 2048 THEN <<192 + (r \div 64), 128 + (r % 64)>>
    ELSE IF r < 65536 THEN
        <<224 + (r \div 4096), 128 + ((r \div 64) % 64), 128 + (r % 64)>>
    ELSE <<240 + (r \div 262144), 128 + ((r \div 4096) % 64),
           128 + ((r \div 64) % 64), 128 + (r % 64)>>

RECURSIVE StringOfRunes(_)
\* string(keys) for keys []rune: the concatenated encodings
StringOfRunes(rs) ==
    IF rs = <<>> THEN <<>>
    ELSE EncodeRune(Head(rs)) \o StringOfRunes(Tail(rs))

\* utf8.DecodeRuneInString at byte position p (1-based) of a well-formed
\* string s: the rune and the number of bytes it takes
DecodeRune(s, p) ==
    LET b == s[p] IN
    IF b < 128 THEN [rune |-> b, size |-> 1]
    ELSE IF b < 224 THEN
        [rune |-> (b - 192) * 64 + (s[p + 1] - 128), size |-> 2]
    ELSE IF b < 240 THEN
        [rune |-> (b - 224) * 4096 + (s[p + 1] - 128) * 64 + (s[p + 2] - 128),
         size |-> 3]
    ELSE
        [rune |-> (b - 240) * 262144 + (s[p + 1] - 128) * 4096
                     + (s[p + 2] - 128) * 64 + (s[p + 3] - 128),
         size |-> 4]

RECURSIVE RangeFrom(_, _)
\* the iterations of `for i, char := range key` from byte position p on:
\* the pairs <<i, char>>, i the 0-based byte offset where char starts
RangeFrom(s, p) ==
    IF p > Len(s) THEN <<>>
    ELSE LET d == DecodeRune(s, p)
         IN  <<[i |-> p - 1, char |-> d.rune]>> \o RangeFrom(s, p + d.size)

RangeString(s) == RangeFrom(s, 1)

\* []rune(key)
RunesOfString(s) ==
    LET it == RangeString(s) IN [n \in 1..Len(it) |-> it[n].char]

\* the rune sequences of at most n runes over Alphabet
RuneSeqs(n) == UNION {[1..m -> Alphabet] : m \in 0..n}

\* the keys handed to the operations
Keys == {StringOfRunes(rs) : rs \in RuneSeqs(MaxLen)}

\* ---------------------------------------------------------------- nodes
\* &Node[T]{}: the root made by NewTrie and Clear
EmptyNode == [Value |-> Zero, Children |-> <<>>, KeyRune |-> 0, IsEnd |-> FALSE]

\* FirstChild comparing the first child only: a later child carrying r is
\* not found
FirstChildOnlyHead(children, r) ==
    IF Len(children) > 0 /\ children[1].KeyRune = r THEN 1 ELSE 0

\* the index of the first child carrying rune r, 0 when there is none
\* (the `for i := range node.Children` scans that stop at the first match)
FirstChild(children, r) ==
    IF \E i \in 1..Len(children) : children[i].KeyRune = r
    THEN CHOOSE i \in 1..Len(children) :
            /\ children[i].KeyRune = r
            /\ \A j \in 1..(i - 1) : children[j].KeyRune # r
    ELSE 0

RECURSIVE countNodesBelow(_)
\* the number of nodes below node (the mapping argument of the source only
\* memoises the count of a node already counted)
countNodesBelow(node) ==
    LET RECURSIVE Sum(_)
        Sum(i) == IF i = 0 THEN 0
                  ELSE countNodesBelow(node.Children[i]) + Sum(i - 1)
    IN  Len(node.Children) + Sum(Len(node.Children))

\* ---------------------------------------------------------------- insert
RECURSIVE insertStampingPath(_, _, _)
\* insert storing the value in every node it goes through, not only in the
\* last one
insertStampingPath(node, key, value) ==
    IF Len(key) = 0 THEN
        IF node.IsEnd
        THEN [node |-> node, err |-> ErrAlreadyExists]
        ELSE [node |-> [node EXCEPT !.IsEnd = TRUE, !.Value = value],
              err |-> Nil]
    ELSE
        LET i == FirstChild(node.Children, key[1]) IN
        IF i # 0 THEN
            LET r == insertStampingPath(node.Children[i], Tail(key), value)
            IN  [node |-> [node EXCEPT !.Children[i] = r.node,
                                       !.Value = IF r.err = Nil
                                                 THEN value ELSE @],
                 err |-> r.err]
        ELSE
            LET newNode == [Children |-> <<>>, KeyRune |-> key[1],
                            Value |-> value, IsEnd |-> FALSE]
                r == IF Len(key) = 1
                     THEN [node |-> [newNode EXCEPT !.Value = value,
                                                    !.IsEnd = TRUE],
                           err |-> Nil]
                     ELSE insertStampingPath(newNode, Tail(key), value)
            IN  [node |-> [node EXCEPT !.Children = Append(@, r.node),
                                       !.Value = value],
                 err |-> r.err]

RECURSIVE insertOverwriting(_, _, _)
\* insert storing the value before it tests IsEnd: a key that exists
\* already gets the new value
insertOverwriting(node, key, value) ==
    IF Len(key) = 0 THEN
        [node |-> [node EXCEPT !.IsEnd = TRUE, !.Value = value],
         err |-> IF node.IsEnd THEN ErrAlreadyExists ELSE Nil]
    ELSE
        LET i == FirstChild(node.Children, key[1]) IN
        IF i # 0 THEN
            LET r == insertOverwriting(node.Children[i], Tail(key), value)
            IN  [node |-> [node EXCEPT !.Children[i] = r.node], err |-> r.err]
        ELSE
            LET newNode == [Children |-> <<>>, KeyRune |-> key[1],
                            Value |-> Zero, IsEnd |-> FALSE]
                r == IF Len(key) = 1
                     THEN [node |-> [newNode EXCEPT !.Value = value,
                                                    !.IsEnd = TRUE],
                           err |-> Nil]
                     ELSE insertOverwriting(newNode, Tail(key), value)
            IN  [node |-> [node EXCEPT !.Children = Append(@, r.node)],
                 err |-> r.err]

RECURSIVE insert(_, _, _)
\* insert(node, key, value): the node after the call and the error returned
\* (the `node == nil` test never fires: insert is only handed the root, a
\* child found in Children, or the node it has just made)
insert(node, key, value) ==
    IF Len(key) = 0 THEN
        IF node.IsEnd
        THEN [node |-> node, err |-> ErrAlreadyExists]
        ELSE [node |-> [node EXCEPT !.IsEnd = TRUE, !.Value = value],
              err |-> Nil]
    ELSE
        LET i == FirstChild(node.Children, key[1]) IN
        IF i # 0 THEN
            LET r == insert(node.Children[i], Tail(key), value)
            IN  [node |-> [node EXCEPT !.Children[i] = r.node], err |-> r.err]
        ELSE
            LET newNode == [Children |-> <<>>, KeyRune |-> key[1],
                            Value |-> Zero, IsEnd |-> FALSE]
                r == IF Len(key) = 1
                     THEN [node |-> [newNode EXCEPT !.Value = value,
                                                    !.IsEnd = TRUE],
                           err |-> Nil]
                     ELSE insert(newNode, Tail(key), value)
            IN  [node |-> [node EXCEPT !.Children = Append(@, r.node)],
                 err |-> r.err]

\* ---------------------------------------------------------------- search
RECURSIVE SearchFrom(_, _, _)
\* the rest of Search's loop: current node, the iterations left, len(key)
SearchFrom(current, it, keyLen) ==
    IF it = <<>> THEN [val |-> Zero, err |-> ErrNotFound]
    ELSE
        LET i == it[1].i
            j == FirstChild(current.Children, it[1].char)
        IN
        IF j = 0 THEN SearchFrom(current, Tail(it), keyLen)
        ELSE
            LET node == current.Children[j] IN
            IF node.IsEnd /\ (i + 1) = keyLen
            THEN [val |-> node.Value, err |-> Nil]
            ELSE SearchFrom(node, Tail(it), keyLen)

\* Trie.Search(key): the value and the error returned
Search(t, key) == SearchFrom(t, RangeString(key), Len(key))

\* ---------------------------------------------------------------- delete
\* SliceDelete cutting the slice at i: the later siblings go as well
SliceDeleteTruncating(s, i) == SubSeq(s, 1, i - 1)

\* SliceDelete moving the last element into the gap
SliceDeleteSwapping(s, i) ==
    [n \in 1..(Len(s) - 1) |-> IF n = i THEN s[Len(s)] ELSE s[n]]

\* SliceDelete whose result is dropped: the child stays in place
SliceDeleteKeeping(s, i) == s

\* slices.Delete(s, i, i+1) with the 1-based index i
SliceDelete(s, i) ==
    [n \in 1..(Len(s) - 1) |-> IF n < i THEN s[n] ELSE s[n + 1]]

RECURSIVE deleteNodeUnmarking(_, _)
\* deleteNode clearing IsEnd before it looks at the key: every node it
\* visits loses its flag, found or not
deleteNodeUnmarking(node, key) ==
    LET unmarked == [node EXCEPT !.IsEnd = FALSE] IN
    IF Len(key) = 0 THEN
        [node |-> unmarked,
         val |-> node.Value,
         safe |-> (Len(node.Children) = 0),
         err |-> Nil]
    ELSE
        LET i == FirstChild(node.Children, key[1]) IN
        IF i = 0
        THEN [node |-> unmarked, val |-> Zero, safe |-> FALSE,
              err |-> ErrNotFound]
        ELSE
            LET r == deleteNodeUnmarking(node.Children[i], Tail(key))
                visited == [unmarked EXCEPT !.Children[i] = r.node]
            IN
            IF r.err # Nil
            THEN [node |-> visited, val |-> Zero, safe |-> FALSE, err |-> r.err]
            ELSE
                LET after == IF r.safe
                             THEN [visited EXCEPT
                                      !.Children = SliceDelete(@, i)]
                             ELSE visited
                IN  [node |-> after,
                     val |-> r.val,
                     safe |-> (Len(after.Children) < 1 /\ ~after.IsEnd),
                     err |-> Nil]

RECURSIVE deleteNodeKeepingAncestors(_, _)
\* deleteNode detaching the node of the key only: a node above it is never
\* reported safe to delete
deleteNodeKeepingAncestors(node, key) ==
    IF Len(key) = 0 THEN
        [node |-> [node EXCEPT !.IsEnd = FALSE],
         val |-> node.Value,
         safe |-> (Len(node.Children) = 0),
         err |-> Nil]
    ELSE
        LET i == FirstChild(node.Children, key[1]) IN
        IF i = 0
        THEN [node |-> node, val |-> Zero, safe |-> FALSE, err |-> ErrNotFound]
        ELSE
            LET r == deleteNodeKeepingAncestors(node.Children[i], Tail(key))
                visited == [node EXCEPT !.Children[i] = r.node]
            IN
            IF r.err # Nil
            THEN [node |-> visited, val |-> Zero, safe |-> FALSE, err |-> r.err]
            ELSE
                LET after == IF r.safe
                             THEN [visited EXCEPT
                                      !.Children = SliceDelete(@, i)]
                             ELSE visited
                IN  [node |-> after, val |-> r.val, safe |-> FALSE,
                     err |-> Nil]

RECURSIVE deleteNode(_, _)
\* deleteNode(node, key): the node after the call, and the three results
\* (value, safeToDelete, error)
deleteNode(node, key) ==
    IF Len(key) = 0 THEN
        [node |-> [node EXCEPT !.IsEnd = FALSE],
         val |-> node.Value,
         safe |-> (Len(node.Children) = 0),
         err |-> Nil]
    ELSE
        LET i == FirstChild(node.Children, key[1]) IN
        IF i = 0
        THEN [node |-> node, val |-> Zero, safe |-> FALSE, err |-> ErrNotFound]
        ELSE
            LET r == deleteNode(node.Children[i], Tail(key))
                visited == [node EXCEPT !.Children[i] = r.node]
            IN
            IF r.err # Nil
            THEN [node |-> visited, val |-> Zero, safe |-> FALSE, err |-> r.err]
            ELSE
                LET after == IF r.safe
                             THEN [visited EXCEPT
                                      !.Children = SliceDelete(@, i)]
                             ELSE visited
                IN  [node |-> after,
                     val |-> r.val,
                     safe |-> (Len(after.Children) < 1 /\ ~after.IsEnd),
                     err |-> Nil]

\* ---------------------------------------------------------------- GetAll
\* the callback GetAll hands to the traversal: keep the keys of end nodes
GetAllFun(node, key, accumulator) ==
    IF node.IsEnd THEN Append(accumulator, key) ELSE accumulator

RECURSIVE depthFirstSearchPreOrder(_, _, _)
\* depthFirstSearchEveryNode calling the callback on a node before its
\* children
depthFirstSearchPreOrder(nodes, keys, accumulator) ==
    IF Len(nodes) = 0 THEN accumulator
    ELSE
        LET RECURSIVE Loop(_, _)
            Loop(i, acc) ==
                IF i > Len(nodes) THEN acc
                ELSE
                    LET keysI == Append(keys, nodes[i].KeyRune)
                        here == GetAllFun(nodes[i], StringOfRunes(keysI), acc)
                    IN  Loop(i + 1,
                             depthFirstSearchPreOrder(
                                 nodes[i].Children, keysI, here))
        IN  Loop(1, accumulator)

RECURSIVE depthFirstSearchEveryNode(_, _, _)
\* depthFirstSearchEveryNode(nodes, keys, GetAllFun, accumulator): for each
\* node of nodes in order, first its children, then the callback on the node
depthFirstSearchEveryNode(nodes, keys, accumulator) ==
    IF Len(nodes) = 0 THEN accumulator
    ELSE
        LET RECURSIVE Loop(_, _)
            Loop(i, acc) ==
                IF i > Len(nodes) THEN acc
                ELSE
                    LET keysI == Append(keys, nodes[i].KeyRune)
                        below == depthFirstSearchEveryNode(
                                     nodes[i].Children, keysI, acc)
                    IN  Loop(i + 1,
                             GetAllFun(nodes[i], StringOfRunes(keysI), below))
        IN  Loop(1, accumulator)

\* Trie.GetAll(): the keys returned
GetAll(t) == depthFirstSearchEveryNode(t.Children, <<>>, <<>>)

\* ----------------------------------------------------------------- state
\* root: t.Root, the tree;  last: the last call and what it returned;
\* ref: a key-value map driven by the same calls (insert if absent, remove,
\* empty), the reference the trie is compared with
\* calls: the Insert calls in flight, one slot for each goroutine of Procs,
\* and whether the callers start a call only when no other is in flight
VARIABLES root, last, ref, calls

vars == <<root, last, ref, calls>>

\* the goroutines that call into the trie
Procs == {1, 2}

\* the slot of a goroutine that is in no call
IdleCall == [pc |-> "idle", at |-> <<>>, key |-> <<>>, whole |-> <<>>,
             value |-> Zero]

\* no call in flight; serial: a call starts only when no other is in flight
NoCalls(serial) == [serial |-> serial, proc |-> [p \in Procs |-> IdleCall]]

\* the record of a call: operation, arguments, and results
Call(op, key, value, val, err, keys) ==
    [op |-> op, key |-> key, value |-> value,
     val |-> val, err |-> err, keys |-> keys]

RefKeys == {e.key : e \in ref}

RefValue(k) == (CHOOSE e \in ref : e.key = k).value

\* NewTrie()
Init ==
    /\ root = EmptyNode
    /\ last = Call("NewTrie", <<>>, Zero, Zero, Nil, <<>>)
    /\ ref = {}
    /\ calls = NoCalls(TRUE)

\* t.Insert(key, value); calls that would leave more than MaxNodes nodes
\* are not made
Insert(key, value) ==
    LET r == insert(root, RunesOfString(key), value) IN
    /\ countNodesBelow(r.node) <= MaxNodes
    /\ root' = r.node
    /\ last' = Call("Insert", key, value, Zero, r.err, <<>>)
    /\ ref' = IF key \in RefKeys THEN ref
              ELSE ref \cup {[key |-> key, value |-> value]}
    /\ UNCHANGED calls

\* t.Search(key)
SearchCall(key) ==
    LET r == Search(root, key) IN
    /\ last' = Call("Search", key, Zero, r.val, r.err, <<>>)
    /\ UNCHANGED <<root, ref>>
    /\ UNCHANGED calls

\* Delete refusing the empty key before it looks at the tree
DeleteRejectingEmptyKey(key) ==
    LET r == IF Len(key) = 0
             THEN [node |-> root, val |-> Zero, err |-> ErrNotFound]
             ELSE deleteNode(root, RunesOfString(key))
    IN
    /\ root' = r.node
    /\ last' = Call("Delete", key, Zero, r.val, r.err, <<>>)
    /\ ref' = {e \in ref : e.key # key}
    /\ UNCHANGED calls

\* t.Delete(key)
Delete(key) ==
    LET r == deleteNode(root, RunesOfString(key)) IN
    /\ root' = r.node
    /\ last' = Call("Delete", key, Zero, r.val, r.err, <<>>)
    /\ ref' = {e \in ref : e.key # key}
    /\ UNCHANGED calls

\* GetAll whose walk detaches what it has visited
GetAllCallDetaching ==
    /\ last' = Call("GetAll", <<>>, Zero, Zero, Nil, GetAll(root))
    /\ root' = [root EXCEPT !.Children = <<>>]
    /\ UNCHANGED ref
    /\ UNCHANGED calls

\* t.GetAll()
GetAllCall ==
    /\ last' = Call("GetAll", <<>>, Zero, Zero, Nil, GetAll(root))
    /\ UNCHANGED <<root, ref>>
    /\ UNCHANGED calls

\* Clear relying on its walk alone: the root is not replaced
ClearByWalkOnly ==
    /\ root' = root
    /\ last' = Call("Clear", <<>>, Zero, Zero, Nil, <<>>)
    /\ ref' = {}
    /\ UNCHANGED calls

\* t.Clear(): the traversal's callback only assigns its own parameter, so
\* the walk changes nothing; the root is then replaced
Clear ==
    /\ root' = EmptyNode
    /\ last' = Call("Clear", <<>>, Zero, Zero, Nil, <<>>)
    /\ ref' = {}
    /\ UNCHANGED calls

Next ==
    \/ \E key \in Keys, value \in Values : Insert(key, value)
    \/ \E key \in Keys : SearchCall(key)
    \/ \E key \in Keys : Delete(key)
    \/ GetAllCall
    \/ Clear

Spec == Init /\ [][Next]_vars

\* the least of Values
LeastValue == CHOOSE v \in Values : \A w \in Values : v <= w

\* the same operations, every Insert storing the one value LeastValue
NextOneValue ==
    \/ \E key \in Keys : Insert(key, LeastValue)
    \/ \E key \in Keys : SearchCall(key)
    \/ \E key \in Keys : Delete(key)
    \/ GetAllCall
    \/ Clear

SpecOneValue == Init /\ [][NextOneValue]_vars

\* the same again, and a caller that inserts a key it holds a second time,
\* with any value
NextReinsert ==
    \/ \E key \in Keys : Insert(key, LeastValue)
    \/ \E key \in RefKeys, value \in Values : Insert(key, value)
    \/ \E key \in Keys : SearchCall(key)
    \/ \E key \in Keys : Delete(key)
    \/ GetAllCall
    \/ Clear

SpecReinsert == Init /\ [][NextReinsert]_vars

\* a third symbol, 'b', for keys of one symbol: a node can then have three
\* children
ThirdRune == 98

SiblingKeys == Keys \cup {StringOfRunes(<<ThirdRune>>)}

\* the operations that change or list the children, on the keys
\* SiblingKeys, every Insert storing LeastValue
NextSiblings ==
    \/ \E key \in SiblingKeys : Insert(key, LeastValue)
    \/ \E key \in SiblingKeys : Delete(key)
    \/ GetAllCall
    \/ Clear

SpecSiblings == Init /\ [][NextSiblings]_vars

\* ------------------------------------------------- Insert, step by step
\* Two goroutines call Insert on the same trie, which has no lock. A call
\* goes on in steps: the test of the key and the scan of the children of the
\* node it is at, then, where no child was found, the append of a new node.
\* A call holds the node it is at as a pointer, here the child indexes that
\* lead to it (children are only appended while Inserts run).

RECURSIVE NodeAtIndex(_, _)
\* the node the child indexes at lead to from node
NodeAtIndex(node, at) ==
    IF at = <<>> THEN node
    ELSE NodeAtIndex(node.Children[at[1]], Tail(at))

RECURSIVE ReplaceAt(_, _, _)
\* node with the node the child indexes at lead to replaced by new
ReplaceAt(node, at, new) ==
    IF at = <<>> THEN new
    ELSE [node EXCEPT !.Children[at[1]] = ReplaceAt(@, Tail(at), new)]

\* the goroutines that are in a call
InFlight == {p \in Procs : calls.proc[p].pc # "idle"}

RECURSIVE Pending(_)
\* the symbols the calls of the goroutines ps have still to go through
Pending(ps) ==
    IF ps = {} THEN 0
    ELSE LET p == CHOOSE q \in ps : TRUE
         IN  Len(calls.proc[p].key) + Pending(ps \ {p})

\* the call of goroutine p returns err
Return(p, err) ==
    LET c == calls.proc[p] IN
    /\ last' = Call("Insert", c.whole, c.value, Zero, err, <<>>)
    /\ ref' = IF err = Nil /\ c.whole \notin RefKeys
              THEN ref \cup {[key |-> c.whole, value |-> c.value]}
              ELSE ref
    /\ calls' = [calls EXCEPT !.proc[p] = IdleCall]

\* Begin with no regard to the calls in flight
BeginUnserialised(p, key, value) ==
    /\ calls.proc[p].pc = "idle"
    /\ countNodesBelow(root) + Pending(InFlight)
           + Len(RunesOfString(key)) <= MaxNodes
    /\ calls' = [calls EXCEPT !.proc[p] =
                    [pc |-> "lookup", at |-> <<>>, key |-> RunesOfString(key),
                     whole |-> key, value |-> value]]
    /\ UNCHANGED <<root, last, ref>>

\* goroutine p calls t.Insert(key, value): insert is handed the root and
\* the runes of the key; serial callers wait until no call is in flight;
\* calls that could leave more than MaxNodes nodes are not made
Begin(p, key, value) ==
    /\ calls.proc[p].pc = "idle"
    /\ calls.serial => InFlight = {}
    /\ countNodesBelow(root) + Pending(InFlight)
           + Len(RunesOfString(key)) <= MaxNodes
    /\ calls' = [calls EXCEPT !.proc[p] =
                    [pc |-> "lookup", at |-> <<>>, key |-> RunesOfString(key),
                     whole |-> key, value |-> value]]
    /\ UNCHANGED <<root, last, ref>>

\* insert at the node the call is at: with no symbol left, the test of
\* IsEnd and the marking; else the scan of the children for the next symbol
Lookup(p) ==
    LET c == calls.proc[p]
        node == NodeAtIndex(root, c.at)
    IN
    /\ c.pc = "lookup"
    /\ IF Len(c.key) = 0 THEN
           IF node.IsEnd
           THEN /\ UNCHANGED root
                /\ Return(p, ErrAlreadyExists)
           ELSE /\ root' = ReplaceAt(root, c.at,
                               [node EXCEPT !.IsEnd = TRUE, !.Value = c.value])
                /\ Return(p, Nil)
       ELSE
           LET i == FirstChild(node.Children, c.key[1]) IN
           /\ calls' = [calls EXCEPT !.proc[p] =
                           IF i # 0
                           THEN [c EXCEPT !.at = Append(@, i),
                                          !.key = Tail(@)]
                           ELSE [c EXCEPT !.pc = "append"]]
           /\ UNCHANGED <<root, last, ref>>

\* insert after a scan that found no child: a new node is appended to the
\* children of the node the call is at, as they are now; it is marked when
\* it is the node of the last symbol, else the call goes on in it
Update(p) ==
    LET c == calls.proc[p]
        node == NodeAtIndex(root, c.at)
        newNode == [Children |-> <<>>, KeyRune |-> c.key[1],
                    Value |-> Zero, IsEnd |-> FALSE]
    IN
    /\ c.pc = "append"
    /\ IF Len(c.key) = 1
       THEN /\ root' = ReplaceAt(root, c.at,
                           [node EXCEPT !.Children =
                               Append(@, [newNode EXCEPT !.Value = c.value,
                                                         !.IsEnd = TRUE])])
            /\ Return(p, Nil)
       ELSE /\ root' = ReplaceAt(root, c.at,
                           [node EXCEPT !.Children = Append(@, newNode)])
            /\ calls' = [calls EXCEPT !.proc[p] =
                            [c EXCEPT !.pc = "lookup",
                                      !.at = Append(@, Len(node.Children) + 1),
                                      !.key = Tail(@)]]
            /\ UNCHANGED <<last, ref>>

\* NewTrie(), and callers that are serial or not
InitConcurrent ==
    /\ root = EmptyNode
    /\ last = Call("NewTrie", <<>>, Zero, Zero, Nil, <<>>)
    /\ ref = {}
    /\ calls \in {NoCalls(serial) : serial \in BOOLEAN}

NextConcurrent ==
    \/ \E p \in Procs, key \in Keys : Begin(p, key, LeastValue)
    \/ \E p \in Procs : Lookup(p)
    \/ \E p \in Procs : Update(p)

SpecConcurrent == InitConcurrent /\ [][NextConcurrent]_vars

\* ------------------------------------------------------- what is stored
\* p is a proper prefix of k
IsStrictPrefix(p, k) == Len(p) < Len(k) /\ SubSeq(k, 1, Len(p)) = p

\* how often x occurs in the sequence seq
Count(seq, x) == Cardinality({n \in DOMAIN seq : seq[n] = x})

RECURSIVE Entries(_, _)
\* the keys the tree below node spells, node reached by the runes path: one
\* entry per node with IsEnd set, with the Value it holds
Entries(node, path) ==
    (IF node.IsEnd
     THEN {[key |-> StringOfRunes(path), value |-> node.Value]}
     ELSE {})
    \cup UNION {Entries(node.Children[n], Append(path, node.Children[n].KeyRune))
                : n \in 1..Len(node.Children)}

RECURSIVE NodeAt(_, _)
\* the node the runes path lead to from node (path is a path of the tree)
NodeAt(node, path) ==
    IF path = <<>> THEN node
    ELSE NodeAt(node.Children[FirstChild(node.Children, path[1])], Tail(path))

RECURSIVE Shape(_)
\* the tree below node without the values: symbol, terminal flag and the
\* children in their order
Shape(node) ==
    [KeyRune |-> node.KeyRune, IsEnd |-> node.IsEnd,
     Children |-> [n \in 1..Len(node.Children) |-> Shape(node.Children[n])]]

\* the non-empty prefixes, in symbols, of the keys of the reference map
RefPrefixes ==
    UNION {{SubSeq(RunesOfString(k), 1, n) : n \in 1..Len(RunesOfString(k))}
           : k \in RefKeys}

RECURSIVE NodesBelow(_)
\* the nodes below node, the root of the tree not among them
NodesBelow(node) ==
    UNION {{node.Children[n]} \cup NodesBelow(node.Children[n])
           : n \in 1..Len(node.Children)}

RECURSIVE HasPath(_, _)
\* the runes path lead from node to a node of the tree
HasPath(node, path) ==
    \/ path = <<>>
    \/ /\ FirstChild(node.Children, path[1]) # 0
       /\ HasPath(node.Children[FirstChild(node.Children, path[1])],
                  Tail(path))

\* the symbols of the children of node, in their stored order
ChildRunes(node) == [n \in 1..Len(node.Children) |-> node.Children[n].KeyRune]

\* the sequence s without the elements that do not occur in the sequence t
Remaining(s, t) ==
    LET kept(x) == \E n \in DOMAIN t : t[n] = x IN SelectSeq(s, kept)

RECURSIVE AppendedOnly(_, _)
\* every node below before is below after in the same place, and the
\* children of a node of after are those it has in before, in their order,
\* or those followed by one more child
AppendedOnly(before, after) ==
    /\ Len(after.Children) \in {Len(before.Children), Len(before.Children) + 1}
    /\ \A n \in 1..Len(before.Children) :
          /\ after.Children[n].KeyRune = before.Children[n].KeyRune
          /\ AppendedOnly(before.Children[n], after.Children[n])

RECURSIVE OrderKept(_, _)
\* every node below after is below before on the same path, and the
\* children of a node of after are children it has in before, in the
\* relative order they have there
OrderKept(before, after) ==
    /\ ChildRunes(after) = Remaining(ChildRunes(before), ChildRunes(after))
    /\ \A n \in 1..Len(after.Children) :
          LET m == FirstChild(before.Children, after.Children[n].KeyRune)
          IN  m # 0 /\ OrderKept(before.Children[m], after.Children[n])

RECURSIVE KeptExcept(_, _, _, _)
\* every node of before is in the same place in after with its symbol, and
\* with its terminal flag and value unless it is the node the runes key lead
\* to (onPath: the node is on the path of key, of which key is the rest)
KeptExcept(before, after, key, onPath) ==
    /\ after.KeyRune = before.KeyRune
    /\ ~(onPath /\ key = <<>>)
          => (after.IsEnd = before.IsEnd /\ after.Value = before.Value)
    /\ Len(after.Children) >= Len(before.Children)
    /\ \A n \in 1..Len(before.Children) :
          LET down == /\ onPath
                      /\ key # <<>>
                      /\ before.Children[n].KeyRune = key[1]
          IN  KeptExcept(before.Children[n], after.Children[n],
                         IF down THEN Tail(key) ELSE <<>>, down)

\* ----------------------------------------------------------------- claims
\* In the step formulas below root, ref are the tree and the reference map
\* before a call and root', last' the tree after it and what it returned.

\* C1: on a trie where key k is absent, Insert(k, v) returns nil and a
\* Search(k) right after it returns (v, nil), for every key and value.
C1_InsertSearchRoundTrip ==
    [][(last'.op = "Insert" /\ last'.key \notin RefKeys)
          => /\ last'.err = Nil
             /\ Search(root', last'.key)
                    = [val |-> last'.value, err |-> Nil]]_vars

\* C2: Search of a key that is not present returns (zero, ErrNotFound), also
\* when skipping one symbol of the key would spell a stored key.
C2_SearchRejectsAbsent ==
    (last.op = "Search" /\ last.key \notin RefKeys)
        => (last.val = Zero /\ last.err = ErrNotFound)

\* C3: Delete of a key that is not present as a complete terminal path
\* returns (zero, ErrNotFound).
C3_DeleteRejectsAbsent ==
    [][(last'.op = "Delete" /\ last'.key \notin RefKeys)
          => (last'.val = Zero /\ last'.err = ErrNotFound)]_vars

\* C4: Delete of a present key k stored with v returns (v, nil), and a
\* Search(k) after it returns ErrNotFound, whatever else is stored.
C4_DeleteRemovesKey ==
    [][(last'.op = "Delete" /\ last'.key \in RefKeys)
          => /\ last'.val = RefValue(last'.key)
             /\ last'.err = Nil
             /\ Search(root', last'.key)
                    = [val |-> Zero, err |-> ErrNotFound]]_vars

\* C5: Insert(k, v2) of a key k present with v returns ErrAlreadyExists, and
\* afterwards Search(k) still returns v and GetAll lists k exactly once.
C5_DuplicateInsertHarmless ==
    [][(last'.op = "Insert" /\ last'.key \in RefKeys)
          => /\ last'.err = ErrAlreadyExists
             /\ Search(root', last'.key)
                    = [val |-> RefValue(last'.key), err |-> Nil]
             /\ Count(GetAll(root'), last'.key) = 1]_vars

\* C6: after a Delete(k) that returns nil, the stored keys and their values
\* are those stored before without k: no other key is lost, changed or added.
C6_DeleteKeepsOtherKeys ==
    [][(last'.op = "Delete" /\ last'.err = Nil)
          => Entries(root', <<>>)
                 = {e \in Entries(root, <<>>) : e.key # last'.key}]_vars

\* a Delete removed a stored key while a proper prefix of it and a key that
\* shares only that prefix with it were stored, and both are still there
C6_Witness ==
    /\ last.op = "Delete"
    /\ last.err = Nil
    /\ last.val \in Values
    /\ last.key \notin RefKeys
    /\ \E e1 \in Entries(root, <<>>), e2 \in Entries(root, <<>>) :
          /\ e1.key # <<>>
          /\ IsStrictPrefix(e1.key, last.key)
          /\ Len(e2.key) > Len(e1.key)
          /\ e2.key # last.key
          /\ IsStrictPrefix(e1.key, e2.key)

\* C7: with p and k stored, p a proper prefix of k, deleting k leaves
\* Search(p) returning p's value and deleting p leaves Search(k) returning
\* k's value.
C7_PrefixIndependence ==
    [][(last'.op = "Delete" /\ last'.key \in RefKeys)
          => \A o \in RefKeys :
                (IsStrictPrefix(o, last'.key) \/ IsStrictPrefix(last'.key, o))
                    => Search(root', o) = [val |-> RefValue(o), err |-> Nil]
      ]_vars

\* C8: Insert of an absent key that is a proper prefix or a proper extension
\* of a stored key o returns nil, Search(o) still returns o's value and
\* GetAll lists both keys.
C8_PrefixAndExtensionInserts ==
    [][(last'.op = "Insert" /\ last'.key \notin RefKeys)
          => \A o \in RefKeys :
                (IsStrictPrefix(o, last'.key) \/ IsStrictPrefix(last'.key, o))
                    => /\ last'.err = Nil
                       /\ Search(root', o) = [val |-> RefValue(o), err |-> Nil]
                       /\ Count(GetAll(root'), last'.key) >= 1
                       /\ Count(GetAll(root'), o) >= 1]_vars

\* C9: GetAll returns every key of the reference map exactly once and
\* nothing else.
C9_GetAllExactlyPresentKeys ==
    last.op = "GetAll"
        => /\ {last.keys[n] : n \in DOMAIN last.keys} = RefKeys
           /\ \A k \in RefKeys : Count(last.keys, k) = 1

\* C10 as claimed: GetAll lists a stored key before every stored key that
\* strictly extends it (pre-order).
C10_PrefixBeforeExtension ==
    last.op = "GetAll"
        => \A m \in DOMAIN last.keys, n \in DOMAIN last.keys :
              IsStrictPrefix(last.keys[m], last.keys[n]) => m < n

\* x is listed before y by a post-order walk of root over the children in
\* their stored order: x extends y, or below their common prefix x goes
\* through an earlier child than y
PostOrderBefore(x, y) ==
    LET rx == RunesOfString(x)
        ry == RunesOfString(y)
    IN  \/ IsStrictPrefix(ry, rx)
        \/ \E d \in 1..Len(rx) :
              /\ d <= Len(ry)
              /\ SubSeq(rx, 1, d - 1) = SubSeq(ry, 1, d - 1)
              /\ rx[d] # ry[d]
              /\ LET at == NodeAt(root, SubSeq(rx, 1, d - 1))
                 IN  FirstChild(at.Children, rx[d])
                        < FirstChild(at.Children, ry[d])

\* C10 amended: GetAll lists the keys in post-order depth-first order over
\* the children in their stored order, so a stored key comes after every
\* stored key that strictly extends it.
C10_PostOrder ==
    last.op = "GetAll"
        => \A m \in DOMAIN last.keys, n \in DOMAIN last.keys :
              m < n => PostOrderBefore(last.keys[m], last.keys[n])

\* GetAll returned a key after a key that extends it, and a key after a key
\* that goes through an earlier sibling
C10_Witness ==
    /\ last.op = "GetAll"
    /\ \E m \in DOMAIN last.keys, n \in DOMAIN last.keys :
          m < n /\ IsStrictPrefix(last.keys[n], last.keys[m])
    /\ \E m \in DOMAIN last.keys, n \in DOMAIN last.keys :
          /\ m < n
          /\ ~IsStrictPrefix(last.keys[n], last.keys[m])

\* C11: Clear leaves the trie as NewTrie makes it: the root has no children
\* and is not terminal, GetAll returns nothing, Search of every key stored
\* before returns ErrNotFound, and each of them can be inserted again.
C11_ClearResets ==
    [][last'.op = "Clear"
          => /\ root' = EmptyNode
             /\ Len(root'.Children) = 0
             /\ ~root'.IsEnd
             /\ GetAll(root') = <<>>
             /\ \A k \in RefKeys :
                   /\ Search(root', k) = [val |-> Zero, err |-> ErrNotFound]
                   /\ \A v \in Values :
                         insert(root', RunesOfString(k), v).err = Nil]_vars

\* Clear has just returned
C11_Witness ==
    /\ last.op = "Clear"
    /\ root = EmptyNode
    /\ ref = {}

\* C12: on every reachable trie and for every key k that is absent,
\* Insert(k, v) followed by Delete(k) both return nil and leave the tree
\* with the nodes it had: same symbols, child order and terminal flags, and
\* the same number of nodes.
C12_InsertDeleteRestoresShape ==
    LET shape == Shape(root)
        count == countNodesBelow(root)
    IN  \A k \in Keys \ RefKeys : \A v \in Values :
            LET inserted == insert(root, RunesOfString(k), v)
                deleted == deleteNode(inserted.node, RunesOfString(k))
            IN  /\ inserted.err = Nil
                /\ deleted.err = Nil
                /\ Shape(deleted.node) = shape
                /\ countNodesBelow(deleted.node) = count

\* a Delete has just taken out a key that had been inserted next to other
\* keys, and with it the chain of at least two nodes the Insert had made
C12_Witness ==
    /\ last.op = "Delete"
    /\ last.err = Nil
    /\ last.val \in Values
    /\ last.key \notin RefKeys
    /\ countNodesBelow(root) >= 1
    /\ countNodesBelow(insert(root, RunesOfString(last.key), last.val).node)
           >= countNodesBelow(root) + 2

\* C13: an Insert that returns ErrAlreadyExists leaves the tree as it was:
\* the same nodes, child order, terminal flags and values.
C13_FailedInsertKeepsTree ==
    [][(last'.op = "Insert" /\ last'.err = ErrAlreadyExists)
          => root' = root]_vars

\* an Insert of a stored key, with a value other than the stored one, has
\* just returned ErrAlreadyExists
C13_Witness ==
    /\ last.op = "Insert"
    /\ last.err = ErrAlreadyExists
    /\ last.key \in RefKeys
    /\ last.value # RefValue(last.key)

\* C14: a Delete that returns ErrNotFound leaves the tree as it was: the
\* same nodes, child order, terminal flags and values.
C14_FailedDeleteKeepsTree ==
    [][(last'.op = "Delete" /\ last'.err = ErrNotFound)
          => root' = root]_vars

\* a Delete has just returned ErrNotFound for a key whose first symbol leads
\* to a stored key and whose second symbol leads nowhere
C14_Witness ==
    /\ last.op = "Delete"
    /\ last.err = ErrNotFound
    /\ LET key == RunesOfString(last.key) IN
        /\ Len(key) >= 2
        /\ FirstChild(root.Children, key[1]) # 0
        /\ LET node == root.Children[FirstChild(root.Children, key[1])]
           IN  /\ node.IsEnd
               /\ Len(node.Children) > 0
               /\ FirstChild(node.Children, key[2]) = 0

\* C15: the tree has one node below the root for each distinct non-empty
\* prefix of the inserted keys, and the root one child for each distinct
\* first symbol: keys that share a prefix share its nodes.
C15_SharedPrefixesShareNodes ==
    /\ countNodesBelow(root) = Cardinality(RefPrefixes)
    /\ Len(root.Children) = Cardinality({p[1] : p \in RefPrefixes})

\* an Insert has just stored a key next to a key with the same first symbol
\* and another second symbol: four symbols stored in three nodes
C15_Witness ==
    /\ last.op = "Insert"
    /\ last.err = Nil
    /\ \E k \in RefKeys :
          LET rk == RunesOfString(k)
              rl == RunesOfString(last.key)
          IN  /\ Len(rk) >= 2
              /\ Len(rl) >= 2
              /\ rk[1] = rl[1]
              /\ rk[2] # rl[2]
    /\ Len(root.Children) = 1
    /\ countNodesBelow(root) = 3

\* C16: between calls no node below the root is both non-terminal and
\* childless: every leaf spells a stored key, Delete having pruned the whole
\* chain of nodes it left dead.
C16_NoDeadLeaves ==
    \A n \in NodesBelow(root) : n.IsEnd \/ Len(n.Children) > 0

\* a Delete has just removed a key of two symbols or more together with the
\* whole chain of its nodes, up to the root, which has another child
C16_Witness ==
    /\ last.op = "Delete"
    /\ last.err = Nil
    /\ last.val \in Values
    /\ Len(RunesOfString(last.key)) >= 2
    /\ FirstChild(root.Children, RunesOfString(last.key)[1]) = 0
    /\ Len(root.Children) > 0

\* C17: a node below the root is terminal exactly when the symbols on its
\* path spell a key of the reference map, and it then holds the value the
\* map has for that key.
C17_TerminalFlagTracksKeys ==
    {e \in Entries(root, <<>>) : e.key # <<>>} = {e \in ref : e.key # <<>>}

\* a Delete has just removed a stored key whose node stays in the tree,
\* non-terminal now, above the node of a key that is still stored
C17_Witness ==
    /\ last.op = "Delete"
    /\ last.err = Nil
    /\ last.val \in Values
    /\ last.key # <<>>
    /\ last.key \notin RefKeys
    /\ HasPath(root, RunesOfString(last.key))
    /\ ~NodeAt(root, RunesOfString(last.key)).IsEnd
    /\ \E k \in RefKeys : IsStrictPrefix(last.key, k)

\* C18: at every node, the root included, no two children carry the same
\* symbol.
C18_DistinctChildSymbols ==
    \A node \in {root} \cup NodesBelow(root) :
        \A m \in DOMAIN node.Children, n \in DOMAIN node.Children :
            node.Children[m].KeyRune = node.Children[n].KeyRune => m = n

\* an Insert has just added a key of two symbols below the existing node of
\* a stored key, its first symbol, which is the second child of the root
C18_Witness ==
    /\ last.op = "Insert"
    /\ last.err = Nil
    /\ Len(root.Children) >= 2
    /\ LET key == RunesOfString(last.key) IN
        /\ Len(key) = 2
        /\ StringOfRunes(<<key[1]>>) \in RefKeys
        /\ FirstChild(root.Children, key[1]) = 2

\* C19: every node whose terminal flag is false holds the zero value, also
\* the node of a deleted key that Delete keeps because it has children.
C19_NonTerminalHoldsZero ==
    \A node \in {root} \cup NodesBelow(root) :
        ~node.IsEnd => node.Value = Zero

\* C20 as claimed: the root is never terminal, whatever the calls and the
\* keys, the empty key included.
C20_RootNeverTerminal == ~root.IsEnd

\* C20 amended: the root is terminal exactly while the empty key is stored,
\* that is while it is a key of the reference map; with non-empty keys only
\* the root is never terminal.
C20_RootTerminalIffEmptyKeyStored == root.IsEnd <=> (<<>> \in RefKeys)

\* an Insert of the empty key has just returned nil on a trie that holds
\* other keys, and the root is terminal
C20_Witness ==
    /\ last.op = "Insert"
    /\ last.key = <<>>
    /\ last.err = Nil
    /\ root.IsEnd
    /\ Len(root.Children) > 0

\* C21: children are kept in insertion order: an Insert leaves the children
\* of every node as they were or appends one child after them, a Delete
\* leaves the remaining children of every node in their relative order, and
\* GetAll walks the children in that stored order.
C21_ChildOrderIsInsertionOrder ==
    [][/\ last'.op = "Insert" => AppendedOnly(root, root')
       /\ last'.op = "Delete" => OrderKept(root, root')
       /\ last'.op = "GetAll"
          => \A m \in DOMAIN last'.keys, n \in DOMAIN last'.keys :
                m < n => PostOrderBefore(last'.keys[m], last'.keys[n])]_vars

\* a Delete has just removed a key of one symbol, and its node, from a root
\* with three children: two children remain
C21_Witness ==
    /\ last.op = "Delete"
    /\ last.err = Nil
    /\ last.val \in Values
    /\ Len(RunesOfString(last.key)) = 1
    /\ FirstChild(root.Children, RunesOfString(last.key)[1]) = 0
    /\ Len(root.Children) = 2

\* C22: Search, found or not, and GetAll leave the tree as it was, nodes,
\* child order, terminal flags and values, so a GetAll right after returns
\* the same sequence again.
C22_SearchAndGetAllReadOnly ==
    [][last'.op \in {"Search", "GetAll"}
          => /\ root' = root
             /\ GetAll(root') = GetAll(root)
             /\ last'.op = "GetAll" => GetAll(root') = last'.keys]_vars

\* GetAll has just returned two keys or more
C22_Witness ==
    /\ last.op = "GetAll"
    /\ Len(last.keys) >= 2
    /\ countNodesBelow(root) >= 2

\* C23: an Insert(k, v) that returns nil changes only k: the stored keys
\* and values afterwards are those stored before and k with v, and every
\* node that existed keeps its symbol, terminal flag and value, except the
\* last node of k.
C23_InsertChangesOnlyItsKey ==
    [][(last'.op = "Insert" /\ last'.err = Nil)
          => /\ Entries(root', <<>>)
                    = Entries(root, <<>>)
                          \cup {[key |-> last'.key, value |-> last'.value]}
             /\ \A e \in Entries(root, <<>>) : e.key # last'.key
             /\ KeptExcept(root, root', RunesOfString(last'.key), TRUE)]_vars

\* an Insert has just stored a key next to a stored proper prefix of it and
\* a stored key that starts with another symbol
C23_Witness ==
    /\ last.op = "Insert"
    /\ last.err = Nil
    /\ \E o1 \in RefKeys, o2 \in RefKeys :
          /\ o1 # <<>>
          /\ IsStrictPrefix(o1, last.key)
          /\ o2 # <<>>
          /\ o2[1] # last.key[1]

\* C24: for every stored key k, inserted before with some value, Delete(k)
\* returns nil, an Insert(k, v2) after it returns nil and not
\* ErrAlreadyExists, and a Search(k) after that returns (v2, nil), whether
\* the Delete pruned the nodes of k or kept them.
C24_ReinsertAfterDelete ==
    \A k \in RefKeys : \A v2 \in Values :
        LET deleted == deleteNode(root, RunesOfString(k))
            inserted == insert(deleted.node, RunesOfString(k), v2)
        IN  /\ deleted.err = Nil
            /\ inserted.err = Nil
            /\ Search(inserted.node, k) = [val |-> v2, err |-> Nil]

\* C25: the empty key behaves like any other key: where it is absent,
\* Insert("", v) returns nil and afterwards Search("") returns (v, nil),
\* GetAll lists "" and Delete("") returns (v, nil); where it is absent,
\* Search("") and Delete("") return (zero, ErrNotFound).
C25_EmptyKeyLikeAnyKey ==
    [][(last'.key = <<>> /\ <<>> \notin RefKeys)
          => /\ last'.op = "Insert"
                => /\ last'.err = Nil
                   /\ Search(root', <<>>)
                          = [val |-> last'.value, err |-> Nil]
                   /\ Count(GetAll(root'), <<>>) = 1
                   /\ LET r == deleteNode(root', <<>>)
                      IN  r.val = last'.value /\ r.err = Nil
             /\ last'.op \in {"Search", "Delete"}
                => (last'.val = Zero /\ last'.err = ErrNotFound)]_vars

\* some node, the root included, has two children with the same symbol
TwinChildren ==
    \E node \in {root} \cup NodesBelow(root) :
        \E m \in DOMAIN node.Children, n \in DOMAIN node.Children :
            m # n /\ node.Children[m].KeyRune = node.Children[n].KeyRune

====
